---- MODULE Spec2Model ----
(***************************************************************************)
(* Model of rfc_protect (src/main.py): one batch run that reconciles the   *)
(* page protection of highly used Wikidata items with the usage ranking.   *)
(*                                                                         *)
(* Usage counts are scaled down to 0..ENTITYUSAGELIMIT, with the two       *)
(* thresholds of Config on that scale.                                     *)
(* The item catalog is external: the state of an item is fixed             *)
(* when the run first reads it (remote[q] = Unread before) and changes     *)
(* afterwards only by the run's own protect calls.                         *)
(***************************************************************************)
EXTENDS Integers, Sequences, FiniteSets, TLC

\* ------------------------------------------------------------------ bounds
MaxTop == 2        \* rows of the usage ranking feed
MaxRows == 2       \* rows of the protection query result / the legacy grant file
MaxStamp == 2      \* timestamps of the rows of the protection query result
MaxLogId == 1      \* log ids of the legacy grant file

\* The thresholds of Config on the scale of the model's usage counts
\* 0..ENTITYUSAGELIMIT: below the cooldown limit, in the band, at the limit.
ENTITYUSAGELIMIT == 2
COOLDOWNUSAGELIMIT == 1
UsageCounts == 0..ENTITYUSAGELIMIT

\* ------------------------------------------------------------- vocabulary
\* An optional value is a sequence of length at most one.
None == <<>>       \* Python None in an Union[int, None] setting
NaN == <<>>        \* entityUsageCount of a left-joined row without a ranking row
Unread == <<>>     \* catalog item the run has not read yet
Some(x) == <<x>>

Qids == {"Q1", "Q2"}
\* The legacy grant file and the deny-list name Q1 at most; Q2 has neither.
GrantedQids == {"Q1"}
DeniedQids == {"Q1"}
Usernames == {"MsynABot", "AdminA"}
Admins == {"AdminA"}

WHITELISTED_ADMINS == {"MsynABot"}
UNPROTECTED == {}
SEMIPROTECTED == {<<"edit", "autoconfirmed", "infinity">>}

\* Protection dictionaries are sets of <<type, level, expiry>> with one entry
\* per type; besides the two shapes of Config a partial protection (moving
\* restricted, editing open).
MoveProtected == {<<"move", "sysop", "infinity">>}
Shapes == {UNPROTECTED, SEMIPROTECTED, MoveProtected}

\* What pwb.ItemPage reports of an item: exists(), isRedirectPage(), protection().
ItemStates ==
    {[exists |-> FALSE, redirect |-> FALSE, protection |-> UNPROTECTED]}
    \cup {[exists |-> TRUE, redirect |-> TRUE, protection |-> UNPROTECTED]}
    \cup [exists : {TRUE}, redirect : {FALSE}, protection : Shapes]

\* Thresholds as Config sets them (usage limit above the cooldown limit) and a
\* configuration with the two the other way round.
ThresholdPairs ==
    {<<ENTITYUSAGELIMIT, COOLDOWNUSAGELIMIT>>, <<COOLDOWNUSAGELIMIT, ENTITYUSAGELIMIT>>}
\* ADDLIMIT, LIFTLIMIT, HARDLIMIT: None or a number of cases.
LimitTriples ==
    {<<None, None, None>>, <<Some(1), None, None>>, <<None, Some(1), None>>,
     <<None, None, Some(0)>>, <<None, None, Some(1)>>}

Configs ==
    {[usageLimit |-> t[1], cooldownLimit |-> t[2], addLimit |-> None,
      liftLimit |-> None, hardLimit |-> None, minSub |-> None, simulate |-> FALSE] :
        t \in ThresholdPairs}
    \cup {[usageLimit |-> ENTITYUSAGELIMIT, cooldownLimit |-> COOLDOWNUSAGELIMIT, addLimit |-> l[1],
           liftLimit |-> l[2], hardLimit |-> l[3], minSub |-> None, simulate |-> FALSE] :
        l \in LimitTriples}
    \cup {[usageLimit |-> ENTITYUSAGELIMIT, cooldownLimit |-> COOLDOWNUSAGELIMIT, addLimit |-> None,
           liftLimit |-> None, hardLimit |-> None, minSub |-> m, simulate |-> s] :
        m \in {None, Some(1)}, s \in BOOLEAN}

\* ---------------------------------------------------------------- helpers
Range(s) == {s[i] : i \in DOMAIN s}
SeqsUpTo(S, n) == UNION {[1..k -> S] : k \in 0..n}

\* A table with repeated rows: row |-> number of occurrences (> 0).
BagOfSeq(s) == [r \in Range(s) |-> Cardinality({i \in DOMAIN s : s[i] = r})]
EmptyBag == [r \in {} |-> 0]
RECURSIVE BagSizeOver(_, _)
BagSizeOver(b, S) ==
    IF S = {} THEN 0
    ELSE LET x == CHOOSE y \in S : TRUE IN b[x] + BagSizeOver(b, S \ {x})
BagSize(b) == BagSizeOver(b, DOMAIN b)

\* sort_values(by='entityUsageCount', ascending=False) of a table whose counts
\* are ranked by rank: the order of rows with equal counts is not fixed by the
\* sort.  Orderings(b) are the sequences that hold the rows of b.
Orderings(b) == {s \in [1..BagSize(b) -> DOMAIN b] : BagOfSeq(s) = b}
\* the ranking's counts are integers
SortedByUsage(b) ==
    {s \in Orderings(b) :
        \A i \in 1..(Len(s) - 1) : s[i].entityUsageCount >= s[i + 1].entityUsageCount}
\* the merged counts may be NaN: na_position='last'
UsageRank(u) == IF u = NaN THEN -1 ELSE u[1]
SortedByMergedUsage(b) ==
    {s \in Orderings(b) :
        \A i \in 1..(Len(s) - 1) :
            UsageRank(s[i].entityUsageCount) >= UsageRank(s[i + 1].entityUsageCount)}

\* ---------------------------------------------------------- Dataset Loader
\* drop_duplicates(subset='qid', keep='last'): the tables that hold, for every
\* qid of rows, one of the rows of lasts, the rows that can come last for
\* their qid after the sort.
OnePerQid(rows, lasts) ==
    {t \in SUBSET lasts :
        \A q \in {r.qid : r \in rows} : Cardinality({r \in t : r.qid = q}) = 1}

\* Rows of the page_restrictions/logging join, sorted by logTimestamp before
\* the deduplication; the timestamp is not kept in the table.
ProtectionRows == [qid : Qids, logTimestamp : 1..MaxStamp, username : Usernames]
get_indefinitely_semiprotected_items(result) ==
    LET rows == Range(result)
        lasts == {r \in rows : \A o \in rows :
                                  o.qid = r.qid => o.logTimestamp <= r.logTimestamp}
    IN {{[qid |-> r.qid, username |-> r.username] : r \in t} : t \in OnePerQid(rows, lasts)}

\* Rows of the legacy grant file, sorted by logId before the deduplication.
EarlyRows == [qid : GrantedQids, logId : 1..MaxLogId, admin : Admins]
get_early_item_protections(file) ==
    LET rows == Range(file)
        lasts == {r \in rows : \A o \in rows : o.qid = r.qid => o.logId <= r.logId}
    IN OnePerQid(rows, lasts)

TopRows == [qid : Qids, entityUsageCount : UsageCounts]
get_list_of_highly_used_items_from_wdcm(feed) == BagOfSeq(feed)

get_blacklisted_items(list) == Range(list)

\* Every table the loaders can hand to main.
\* (a query result without rows gives a frame without a logTimestamp column:
\* get_indefinitely_semiprotected_items raises on it, see LoadFails)
LoadableProtections ==
    UNION {get_indefinitely_semiprotected_items(r) :
               r \in SeqsUpTo(ProtectionRows, MaxRows) \ {<<>>}}
LoadableEarly == UNION {get_early_item_protections(f) : f \in SeqsUpTo(EarlyRows, MaxRows)}
LoadableTop == {get_list_of_highly_used_items_from_wdcm(f) : f \in SeqsUpTo(TopRows, MaxTop)}
LoadableBlacklist == {get_blacklisted_items(l) : l \in SeqsUpTo(DeniedQids, 1)}

\* ----------------------------------------------------------- Set Classifier
QidsOf(rows) == {r.qid : r \in rows}
\* top.loc[top['entityUsageCount'] >= limit, 'qid']
QidsAtLeast(t, limit) == {r.qid : r \in {x \in DOMAIN t : x.entityUsageCount >= limit}}
QidsBelow(t, limit) == {r.qid : r \in {x \in DOMAIN t : x.entityUsageCount < limit}}

\* (a variant that forgets the row filter)
protected_highly_used_items_unfiltered(prot, earlyTbl) == prot

protected_highly_used_items(prot, earlyTbl) ==
    {r \in prot : r.qid \in QidsOf(earlyTbl) \/ r.username \in WHITELISTED_ADMINS}

protected_not_highly_used_items(prot, earlyTbl) ==
    {r \in prot : r.qid \notin QidsOf(earlyTbl) /\ r.username \notin WHITELISTED_ADMINS}

\* rows of the ranking kept by the filter, with their multiplicity
MissingRows(t, prot, usageLimit) ==
    {r \in DOMAIN t : r.qid \notin QidsOf(prot) /\ r.entityUsageCount >= usageLimit}
\* (a variant that forgets the anti-join with the current protections)
protection_missing_any(t, prot, usageLimit) ==
    [r \in {x \in DOMAIN t : x.entityUsageCount >= usageLimit} |-> t[r]]
protection_missing(t, prot, usageLimit) ==
    [r \in MissingRows(t, prot, usageLimit) |-> t[r]]

\* protected[...].merge(top, on='qid', how='left'): one row per matching
\* ranking row, one row with NaN when the ranking has none.
LeftMerge(rows, t) ==
    LET matches(p) == {r \in DOMAIN t : r.qid = p.qid}
        joined == {[qid |-> pr[1].qid, username |-> pr[1].username,
                    entityUsageCount |-> Some(pr[2].entityUsageCount)] :
                      pr \in {x \in rows \X DOMAIN t : x[1].qid = x[2].qid}}
        alone == {[qid |-> p.qid, username |-> p.username, entityUsageCount |-> NaN] :
                      p \in {x \in rows : matches(x) = {}}}
    IN [m \in joined \cup alone |->
           IF m.entityUsageCount = NaN THEN 1
           ELSE t[[qid |-> m.qid, entityUsageCount |-> m.entityUsageCount[1]]]]

\* (a variant that joins with how='inner': protections without a ranking row drop out)
protection_to_lift_inner(t, prot, cooldownLimit) ==
    LeftMerge({p \in prot : p.qid \notin QidsAtLeast(t, cooldownLimit)
                            /\ p.qid \in QidsOf(DOMAIN t)}, t)
protection_to_lift(t, prot, cooldownLimit) ==
    LeftMerge({p \in prot : p.qid \notin QidsAtLeast(t, cooldownLimit)}, t)

\* (a variant whose band includes the usage limit)
protection_in_cooldown_inclusive(t, prot, usageLimit, cooldownLimit) ==
    LeftMerge({p \in prot : p.qid \in QidsBelow(t, usageLimit + 1)
                            /\ p.qid \in QidsAtLeast(t, cooldownLimit)}, t)
protection_in_cooldown(t, prot, usageLimit, cooldownLimit) ==
    LeftMerge({p \in prot : p.qid \in QidsBelow(t, usageLimit)
                            /\ p.qid \in QidsAtLeast(t, cooldownLimit)}, t)

protection_already_set(t, prot, usageLimit) ==
    {p \in prot : p.qid \in QidsAtLeast(t, usageLimit)}


\* ------------------------------------------------------- Provenance Validator
\* Result of the query for the most recent protect action of one item (LIMIT 1):
\* no row, or one row whose log_title is the item asked for.
LogInfos(q) ==
    {<<>>} \cup {<<[log_qid |-> q, log_id |-> i, log_actorname |-> a]>> :
                    i \in 1..(MaxLogId + 1), a \in Usernames}

\* log_info[0] of an empty result raises IndexError.
EarlyProtectionRaises(early_protection, log_info) ==
    Cardinality(early_protection) = 1 /\ log_info = <<>>

\* (a variant that compares with a first grant row without counting the rows)
is_whitelisted_first_row(case, early_protection, log_info) ==
    IF early_protection = {} \/ log_info = <<>> THEN FALSE
    ELSE LET grant == CHOOSE g \in early_protection : TRUE
         IN /\ log_info[1].log_qid = grant.qid
            /\ log_info[1].log_id = grant.logId
            /\ log_info[1].log_actorname = grant.admin

is_whitelisted_early_protection(case, early_protection, log_info) ==
    IF Cardinality(early_protection) # 1 THEN FALSE
    ELSE LET grant == CHOOSE g \in early_protection : TRUE
         IN /\ log_info[1].log_qid = grant.qid
            /\ log_info[1].log_id = grant.logId
            /\ log_info[1].log_actorname = grant.admin

\* ---------------------------------------------------- Protection State Machine
AddKeys ==
    {"belowlimit", "blacklisted", "belowsubscribedprojects", "itemnotexists",
     "itemisredirect", "itemhassomeprotection", "couldntchangetosemiprotection",
     "savefailed", "successful"}
RemoveKeys ==
    {"overlimit", "notwhitelisted", "itemnotexists", "itemisredirect",
     "itemisnotsemiprotected", "couldntremoveprotection", "savefailed", "successful"}

\* Counter.add_protection / Counter.remove_protection: a known key is counted.
CounterAdd(counter, key) ==
    IF key \in DOMAIN counter THEN [counter EXCEPT ![key] = @ + 1] ELSE counter

\* current_protection['edit'] = (level, expiry)  and  current_protection.pop('edit')
DictSet(d, type, level, expiry) == {e \in d : e[1] # type} \cup {<<type, level, expiry>>}
\* (a variant that pops another key than the one asked for)
DictPopMove(d, type) == {e \in d : e[1] # "move"}
DictPop(d, type) == {e \in d : e[1] # type}

\* Outcome of q_item.protect: it returns, or raises the RuntimeError the
\* handlers catch.
CallResults == {"ok", "RuntimeError"}
SubscriberCounts == {0, 1}

\* What one call of a handler did: the counter it incremented (or the
\* exception that left it uncounted), whether it read the item from the
\* catalog, and whether it issued the protect call.
Result(outcome, read, call) == [outcome |-> outcome, read |-> read, call |-> call]

\* (a variant whose protection guard compares with the wrong shape of Config)
add_protection_semi_guard(case, blacklistSet, config, subscribers, item, callResult) ==
    IF case.entityUsageCount < config.usageLimit THEN Result("belowlimit", FALSE, FALSE)
    ELSE IF case.qid \in blacklistSet THEN Result("blacklisted", FALSE, FALSE)
    ELSE IF config.minSub # None /\ subscribers < config.minSub[1]
        THEN Result("belowsubscribedprojects", FALSE, FALSE)
    ELSE IF ~item.exists THEN Result("itemnotexists", TRUE, FALSE)
    ELSE IF item.redirect THEN Result("itemisredirect", TRUE, FALSE)
    ELSE IF item.protection # SEMIPROTECTED THEN Result("itemhassomeprotection", TRUE, FALSE)
    ELSE IF DictSet(item.protection, "edit", "autoconfirmed", "infinity") # SEMIPROTECTED
        THEN Result("couldntchangetosemiprotection", TRUE, FALSE)
    ELSE IF config.simulate # TRUE /\ callResult = "RuntimeError"
        THEN Result("savefailed", TRUE, TRUE)
    ELSE Result("successful", TRUE, config.simulate # TRUE)

\* (a variant without the deny-list guard)
add_protection_no_blacklist(case, blacklistSet, config, subscribers, item, callResult) ==
    IF case.entityUsageCount < config.usageLimit THEN Result("belowlimit", FALSE, FALSE)
    ELSE IF config.minSub # None /\ subscribers < config.minSub[1]
        THEN Result("belowsubscribedprojects", FALSE, FALSE)
    ELSE IF ~item.exists THEN Result("itemnotexists", TRUE, FALSE)
    ELSE IF item.redirect THEN Result("itemisredirect", TRUE, FALSE)
    ELSE IF item.protection # UNPROTECTED THEN Result("itemhassomeprotection", TRUE, FALSE)
    ELSE IF DictSet(item.protection, "edit", "autoconfirmed", "infinity") # SEMIPROTECTED
        THEN Result("couldntchangetosemiprotection", TRUE, FALSE)
    ELSE IF config.simulate # TRUE /\ callResult = "RuntimeError"
        THEN Result("savefailed", TRUE, TRUE)
    ELSE Result("successful", TRUE, config.simulate # TRUE)

\* (a variant that issues the call whatever Config.SIMULATE is)
add_protection_simulate_ignored(case, blacklistSet, config, subscribers, item, callResult) ==
    IF case.entityUsageCount < config.usageLimit THEN Result("belowlimit", FALSE, FALSE)
    ELSE IF case.qid \in blacklistSet THEN Result("blacklisted", FALSE, FALSE)
    ELSE IF config.minSub # None /\ subscribers < config.minSub[1]
        THEN Result("belowsubscribedprojects", FALSE, FALSE)
    ELSE IF ~item.exists THEN Result("itemnotexists", TRUE, FALSE)
    ELSE IF item.redirect THEN Result("itemisredirect", TRUE, FALSE)
    ELSE IF item.protection # UNPROTECTED THEN Result("itemhassomeprotection", TRUE, FALSE)
    ELSE IF DictSet(item.protection, "edit", "autoconfirmed", "infinity") # SEMIPROTECTED
        THEN Result("couldntchangetosemiprotection", TRUE, FALSE)
    ELSE IF callResult = "RuntimeError" THEN Result("savefailed", TRUE, TRUE)
    ELSE Result("successful", TRUE, TRUE)

\* (a variant that counts a simulated case as done without reading the item)
add_protection_simulate_shortcut(case, blacklistSet, config, subscribers, item, callResult) ==
    IF case.entityUsageCount < config.usageLimit THEN Result("belowlimit", FALSE, FALSE)
    ELSE IF case.qid \in blacklistSet THEN Result("blacklisted", FALSE, FALSE)
    ELSE IF config.minSub # None /\ subscribers < config.minSub[1]
        THEN Result("belowsubscribedprojects", FALSE, FALSE)
    ELSE IF config.simulate = TRUE THEN Result("successful", FALSE, FALSE)
    ELSE IF ~item.exists THEN Result("itemnotexists", TRUE, FALSE)
    ELSE IF item.redirect THEN Result("itemisredirect", TRUE, FALSE)
    ELSE IF item.protection # UNPROTECTED THEN Result("itemhassomeprotection", TRUE, FALSE)
    ELSE IF DictSet(item.protection, "edit", "autoconfirmed", "infinity") # SEMIPROTECTED
        THEN Result("couldntchangetosemiprotection", TRUE, FALSE)
    ELSE IF callResult = "RuntimeError" THEN Result("savefailed", TRUE, TRUE)
    ELSE Result("successful", TRUE, TRUE)

\* (a variant that does not compare the live protection with Config.UNPROTECTED)
add_protection_no_state_guard(case, blacklistSet, config, subscribers, item, callResult) ==
    IF case.entityUsageCount < config.usageLimit THEN Result("belowlimit", FALSE, FALSE)
    ELSE IF case.qid \in blacklistSet THEN Result("blacklisted", FALSE, FALSE)
    ELSE IF config.minSub # None /\ subscribers < config.minSub[1]
        THEN Result("belowsubscribedprojects", FALSE, FALSE)
    ELSE IF ~item.exists THEN Result("itemnotexists", TRUE, FALSE)
    ELSE IF item.redirect THEN Result("itemisredirect", TRUE, FALSE)
    ELSE IF DictSet(item.protection, "edit", "autoconfirmed", "infinity") # SEMIPROTECTED
        THEN Result("couldntchangetosemiprotection", TRUE, FALSE)
    ELSE IF config.simulate # TRUE /\ callResult = "RuntimeError"
        THEN Result("savefailed", TRUE, TRUE)
    ELSE Result("successful", TRUE, config.simulate # TRUE)

\* (a variant that looks at the deny-list before the usage count)
add_protection_blacklist_first(case, blacklistSet, config, subscribers, item, callResult) ==
    IF case.qid \in blacklistSet THEN Result("blacklisted", FALSE, FALSE)
    ELSE IF case.entityUsageCount < config.usageLimit THEN Result("belowlimit", FALSE, FALSE)
    ELSE IF config.minSub # None /\ subscribers < config.minSub[1]
        THEN Result("belowsubscribedprojects", FALSE, FALSE)
    ELSE IF ~item.exists THEN Result("itemnotexists", TRUE, FALSE)
    ELSE IF item.redirect THEN Result("itemisredirect", TRUE, FALSE)
    ELSE IF item.protection # UNPROTECTED THEN Result("itemhassomeprotection", TRUE, FALSE)
    ELSE IF DictSet(item.protection, "edit", "autoconfirmed", "infinity") # SEMIPROTECTED
        THEN Result("couldntchangetosemiprotection", TRUE, FALSE)
    ELSE IF config.simulate # TRUE /\ callResult = "RuntimeError"
        THEN Result("savefailed", TRUE, TRUE)
    ELSE Result("successful", TRUE, config.simulate # TRUE)

add_protection(case, blacklistSet, config, subscribers, item, callResult) ==
    IF case.entityUsageCount < config.usageLimit THEN Result("belowlimit", FALSE, FALSE)
    ELSE IF case.qid \in blacklistSet THEN Result("blacklisted", FALSE, FALSE)
    ELSE IF config.minSub # None /\ subscribers < config.minSub[1]
        THEN Result("belowsubscribedprojects", FALSE, FALSE)
    ELSE IF ~item.exists THEN Result("itemnotexists", TRUE, FALSE)
    ELSE IF item.redirect THEN Result("itemisredirect", TRUE, FALSE)
    ELSE IF item.protection # UNPROTECTED THEN Result("itemhassomeprotection", TRUE, FALSE)
    ELSE IF DictSet(item.protection, "edit", "autoconfirmed", "infinity") # SEMIPROTECTED
        THEN Result("couldntchangetosemiprotection", TRUE, FALSE)
    ELSE IF config.simulate # TRUE /\ callResult = "RuntimeError"
        THEN Result("savefailed", TRUE, TRUE)
    ELSE Result("successful", TRUE, config.simulate # TRUE)

\* (a variant whose usage guard is > instead of >=)
remove_protection_above_only(case, early_protection, config, log_info, item, callResult) ==
    IF case.entityUsageCount # NaN /\ case.entityUsageCount[1] > config.usageLimit
        THEN Result("overlimit", FALSE, FALSE)
    ELSE IF case.username \notin WHITELISTED_ADMINS
            /\ EarlyProtectionRaises(early_protection, log_info)
        THEN Result("IndexError", FALSE, FALSE)
    ELSE IF case.username \notin WHITELISTED_ADMINS
            /\ ~is_whitelisted_early_protection(case, early_protection, log_info)
        THEN Result("notwhitelisted", FALSE, FALSE)
    ELSE IF ~item.exists THEN Result("itemnotexists", TRUE, FALSE)
    ELSE IF item.protection # SEMIPROTECTED THEN Result("itemisnotsemiprotected", TRUE, FALSE)
    ELSE IF DictPop(item.protection, "edit") # UNPROTECTED
        THEN Result("couldntremoveprotection", TRUE, FALSE)
    ELSE IF config.simulate # TRUE /\ callResult = "RuntimeError"
        THEN Result("savefailed", TRUE, TRUE)
    ELSE Result("successful", TRUE, config.simulate # TRUE)

\* (a variant that counts a failed call like one that returned)
remove_protection_failure_uncounted(case, early_protection, config, log_info, item, callResult) ==
    IF case.entityUsageCount # NaN /\ case.entityUsageCount[1] >= config.usageLimit
        THEN Result("overlimit", FALSE, FALSE)
    ELSE IF case.username \notin WHITELISTED_ADMINS
            /\ EarlyProtectionRaises(early_protection, log_info)
        THEN Result("IndexError", FALSE, FALSE)
    ELSE IF case.username \notin WHITELISTED_ADMINS
            /\ ~is_whitelisted_early_protection(case, early_protection, log_info)
        THEN Result("notwhitelisted", FALSE, FALSE)
    ELSE IF ~item.exists THEN Result("itemnotexists", TRUE, FALSE)
    ELSE IF item.protection # SEMIPROTECTED THEN Result("itemisnotsemiprotected", TRUE, FALSE)
    ELSE IF DictPop(item.protection, "edit") # UNPROTECTED
        THEN Result("couldntremoveprotection", TRUE, FALSE)
    ELSE Result("successful", TRUE, config.simulate # TRUE)

remove_protection(case, early_protection, config, log_info, item, callResult) ==
    IF case.entityUsageCount # NaN /\ case.entityUsageCount[1] >= config.usageLimit
        THEN Result("overlimit", FALSE, FALSE)
    ELSE IF case.username \notin WHITELISTED_ADMINS
            /\ EarlyProtectionRaises(early_protection, log_info)
        THEN Result("IndexError", FALSE, FALSE)
    ELSE IF case.username \notin WHITELISTED_ADMINS
            /\ ~is_whitelisted_early_protection(case, early_protection, log_info)
        THEN Result("notwhitelisted", FALSE, FALSE)
    ELSE IF ~item.exists THEN Result("itemnotexists", TRUE, FALSE)
    ELSE IF item.protection # SEMIPROTECTED THEN Result("itemisnotsemiprotected", TRUE, FALSE)
    ELSE IF DictPop(item.protection, "edit") # UNPROTECTED
        THEN Result("couldntremoveprotection", TRUE, FALSE)
    ELSE IF config.simulate # TRUE /\ callResult = "RuntimeError"
        THEN Result("savefailed", TRUE, TRUE)
    ELSE Result("successful", TRUE, config.simulate # TRUE)

\* ------------------------------------------------------------ Run Controller
VARIABLES
    phase,       \* where main is: Load, ClassifySets, LiftPass, AddPass, Report, Done
                 \* (Aborted: a loader raised; Crashed: a case raised an uncaught exception)
    cfg,         \* the settings of Config
    top,         \* wdcm_toplist
    wdcmStatus,  \* how the download of the ranking was answered: ok or error
    protected,   \* indef_semiprotected_items
    early,       \* early_item_protections
    blacklist,   \* blacklist
    highlyUsed,  \* indef_protected_highly_used_items
    toAdd,       \* item_protection_to_add, in processing order
    toLift,      \* item_protection_to_lift, in processing order
    inCooldown,  \* item_protection_in_cooldown
    alreadySet,  \* highly_used_items_already_protected_for_other_reasons
    liftDone,    \* cases of the lift pass handed to remove_protection
    addDone,     \* cases of the add pass handed to add_protection
    added,       \* Counter.added_protection
    removed,     \* Counter.removed_protection
    remote,      \* catalog items as read or changed by the run
    calls,       \* protect calls issued, in order (at: the place in handled
                 \* of the case that issued the call)
    handled,     \* the cases handed to a handler, what each call was answered by the
                 \* log, the subscriber API and the catalog, and how it ended, in order
    printed,     \* lines printed by the passes and the summary, in order
    report,      \* report file written / report page saved
    earlier      \* what the runs before this one handled (one entry per run)

vars == <<phase, cfg, top, wdcmStatus, protected, early, blacklist, highlyUsed, toAdd, toLift,
          inCooldown, alreadySet, liftDone, addDone, added, removed, remote, calls,
          handled, printed, report, earlier>>
dataVars == <<top, wdcmStatus, protected, early, blacklist>>
setVars == <<highlyUsed, toAdd, toLift, inCooldown, alreadySet>>
runVars == <<liftDone, addDone, added, removed, remote, calls, handled, printed>>

\* The state main starts a run in, before any loader is called.
Fresh ==
    /\ liftDone = 0
    /\ addDone = 0
    /\ added = [k \in AddKeys |-> 0]
    /\ removed = [k \in RemoveKeys |-> 0]
    /\ remote = [q \in Qids |-> Unread]
    /\ calls = <<>>
    /\ handled = <<>>
    /\ printed = <<>>
    /\ report = [written |-> FALSE, published |-> FALSE]

Init ==
    /\ phase = "Load"
    /\ cfg \in Configs
    /\ top = EmptyBag
    /\ wdcmStatus = "unfetched"
    /\ protected = {}
    /\ early = {}
    /\ blacklist = {}
    /\ highlyUsed = {}
    /\ toAdd = <<>>
    /\ toLift = <<>>
    /\ inCooldown = EmptyBag
    /\ alreadySet = {}
    /\ earlier = <<>>
    /\ Fresh

\* (a variant with the add block before the lift block)
PhaseAfterAddFirst(p) ==
    CASE p = "Load" -> "ClassifySets"
      [] p = "ClassifySets" -> "AddPass"
      [] p = "AddPass" -> "LiftPass"
      [] p = "LiftPass" -> "Report"
      [] p = "Report" -> "Done"

\* The order of the blocks of main.
PhaseAfter(p) ==
    CASE p = "Load" -> "ClassifySets"
      [] p = "ClassifySets" -> "LiftPass"
      [] p = "LiftPass" -> "AddPass"
      [] p = "AddPass" -> "Report"
      [] p = "Report" -> "Done"

\* main, lines 492-496: the five loaders return.
Load ==
    /\ phase = "Load"
    /\ protected' \in LoadableProtections
    /\ early' \in LoadableEarly
    /\ top' \in LoadableTop
    /\ wdcmStatus' = "ok"
    /\ blacklist' \in LoadableBlacklist
    /\ phase' = PhaseAfter(phase)
    /\ UNCHANGED <<cfg, earlier, setVars, runVars, report>>

\* get(Config.WDCM_TOPLIST_URL) is answered with an error status: get returns
\* the response all the same and its body is written to the cache file and
\* parsed.  A body of one line is taken as the header row of a ranking without
\* rows; a body that does not parse raises (LoadFails).
LoadErrorBody ==
    /\ phase = "Load"
    /\ protected' \in LoadableProtections
    /\ early' \in LoadableEarly
    /\ top' = get_list_of_highly_used_items_from_wdcm(<<>>)
    /\ wdcmStatus' = "error"
    /\ blacklist' \in LoadableBlacklist
    /\ phase' = PhaseAfter(phase)
    /\ UNCHANGED <<cfg, earlier, setVars, runVars, report>>

\* One of the loaders raises: main ends with the exception.
LoadFails ==
    /\ phase = "Load"
    /\ phase' = "Aborted"
    /\ UNCHANGED <<cfg, earlier, dataVars, setVars, runVars, report>>

\* main, lines 499-506.
ClassifySets ==
    /\ phase = "ClassifySets"
    /\ highlyUsed' = protected_highly_used_items(protected, early)
    /\ toAdd' \in SortedByUsage(protection_missing(top, protected, cfg.usageLimit))
    /\ toLift' \in SortedByMergedUsage(protection_to_lift(top, highlyUsed', cfg.cooldownLimit))
    /\ inCooldown' = protection_in_cooldown(top, highlyUsed', cfg.usageLimit, cfg.cooldownLimit)
    /\ alreadySet' = protection_already_set(top, protected_not_highly_used_items(protected, early),
                                            cfg.usageLimit)
    /\ phase' = PhaseAfter(phase)
    /\ UNCHANGED <<cfg, earlier, dataVars, runVars, report>>

\* (a variant with < instead of <=)
WithinLimitStrict(limit, cases) == IF limit = None THEN TRUE ELSE Len(cases) < limit[1]
\* if LIMIT is None or df.shape[0] <= LIMIT
WithinLimit(limit, cases) == IF limit = None THEN TRUE ELSE Len(cases) <= limit[1]
\* if Config.HARDLIMIT is not None and processed >= Config.HARDLIMIT: break
HardLimitBreaks(config, processed) ==
    config.hardLimit # None /\ processed >= config.hardLimit[1]

\* The catalog item as the run reads it.
Readable(q) == IF remote[q] = Unread THEN ItemStates ELSE {remote[q][1]}
\* The catalog after a handler call on item q.
RemoteAfter(q, item, res, callResult, shape) ==
    IF ~res.read THEN remote
    ELSE IF res.call /\ callResult = "ok"
        THEN [remote EXCEPT ![q] = Some([item EXCEPT !.protection = shape])]
    ELSE [remote EXCEPT ![q] = Some(item)]
\* The line main prints for the case.
LineOf(res) ==
    IF res.outcome = "successful" THEN "message"
    ELSE IF res.outcome = "savefailed" THEN "error"
    ELSE "warning"
\* remove_protection gets as far as the query of is_whitelisted_early_protection.
RunsQuery(case, early_protection, res) ==
    /\ res.outcome # "overlimit"
    /\ case.username \notin WHITELISTED_ADMINS
    /\ Cardinality(early_protection) = 1

\* add_protection gets as far as the call of get_number_of_subscribed_projects.
AsksSubscribers(case, blacklistSet, config) ==
    /\ case.entityUsageCount >= config.usageLimit
    /\ case.qid \notin blacklistSet
    /\ config.minSub # None

\* main, line 524: the lift pass is skipped as a whole.
LiftSkip ==
    /\ phase = "LiftPass"
    /\ ~WithinLimit(cfg.liftLimit, toLift)
    /\ printed' = Append(printed, "donotlift")
    /\ phase' = PhaseAfter(phase)
    /\ UNCHANGED <<cfg, earlier, dataVars, setVars, liftDone, addDone, added, removed, remote,
                   calls, handled, report>>

\* main, line 510: the loop over an empty list.
LiftNone ==
    /\ phase = "LiftPass"
    /\ WithinLimit(cfg.liftLimit, toLift)
    /\ Len(toLift) = 0
    /\ phase' = PhaseAfter(phase)
    /\ UNCHANGED <<cfg, earlier, dataVars, setVars, runVars, report>>

\* main, lines 510-522: one iteration of the lift loop.
LiftCase ==
    /\ phase = "LiftPass"
    /\ WithinLimit(cfg.liftLimit, toLift)
    /\ liftDone < Len(toLift)
    /\ LET case == toLift[liftDone + 1]
           early_protection == {g \in early : g.qid = case.qid}
       IN \E log_info \in LogInfos(case.qid), item \in Readable(case.qid),
             callResult \in CallResults :
            LET res == remove_protection(case, early_protection, cfg, log_info, item, callResult)
            IN /\ liftDone' = liftDone + 1
               /\ removed' = CounterAdd(removed, res.outcome)
               /\ remote' = RemoteAfter(case.qid, item, res, callResult, UNPROTECTED)
               /\ calls' = IF res.call
                           THEN Append(calls, [op |-> "unprotect", case |-> case,
                                               at |-> Len(handled) + 1,
                                               before |-> item.protection,
                                               result |-> callResult])
                           ELSE calls
               /\ handled' = Append(handled,
                                [pass |-> "lift", case |-> case, outcome |-> res.outcome,
                                 query |-> IF RunsQuery(case, early_protection, res)
                                           THEN Some(log_info) ELSE None,
                                 subscribers |-> None,
                                 item |-> IF res.read THEN Some(item) ELSE None])
               /\ IF res.outcome = "IndexError"
                  THEN /\ printed' = printed
                       /\ phase' = "Crashed"
                  ELSE /\ printed' = Append(printed, LineOf(res))
                       /\ phase' = IF HardLimitBreaks(cfg, liftDone + 1)
                                      \/ liftDone + 1 = Len(toLift)
                                   THEN PhaseAfter(phase) ELSE phase
    /\ UNCHANGED <<cfg, earlier, dataVars, setVars, addDone, added, report>>

\* main, line 541: the add pass is skipped as a whole.
AddSkip ==
    /\ phase = "AddPass"
    /\ ~WithinLimit(cfg.addLimit, toAdd)
    /\ printed' = Append(printed, "donotadd")
    /\ phase' = PhaseAfter(phase)
    /\ UNCHANGED <<cfg, earlier, dataVars, setVars, liftDone, addDone, added, removed, remote,
                   calls, handled, report>>

\* main, line 528: the loop over an empty list.
AddNone ==
    /\ phase = "AddPass"
    /\ WithinLimit(cfg.addLimit, toAdd)
    /\ Len(toAdd) = 0
    /\ phase' = PhaseAfter(phase)
    /\ UNCHANGED <<cfg, earlier, dataVars, setVars, runVars, report>>

\* main, lines 528-539: one iteration of the add loop.
AddCase ==
    /\ phase = "AddPass"
    /\ WithinLimit(cfg.addLimit, toAdd)
    /\ addDone < Len(toAdd)
    /\ LET case == toAdd[addDone + 1]
       IN \E subscribers \in SubscriberCounts, item \in Readable(case.qid),
             callResult \in CallResults :
            LET res == add_protection(case, blacklist, cfg, subscribers, item, callResult)
            IN /\ addDone' = addDone + 1
               /\ added' = CounterAdd(added, res.outcome)
               /\ remote' = RemoteAfter(case.qid, item, res, callResult, SEMIPROTECTED)
               /\ calls' = IF res.call
                           THEN Append(calls, [op |-> "protect", case |-> case,
                                               at |-> Len(handled) + 1,
                                               before |-> item.protection,
                                               result |-> callResult])
                           ELSE calls
               /\ handled' = Append(handled,
                                [pass |-> "add", case |-> case, outcome |-> res.outcome,
                                 query |-> None,
                                 subscribers |-> IF AsksSubscribers(case, blacklist, cfg)
                                                 THEN Some(subscribers) ELSE None,
                                 item |-> IF res.read THEN Some(item) ELSE None])
               /\ printed' = Append(printed, LineOf(res))
               /\ phase' = IF HardLimitBreaks(cfg, addDone + 1) \/ addDone + 1 = Len(toAdd)
                           THEN PhaseAfter(phase) ELSE phase
    /\ UNCHANGED <<cfg, earlier, dataVars, setVars, liftDone, removed, report>>

\* (a variant that does not look at Config.SIMULATE)
PublishesSimulated(config, addedcnt, liftedcnt) == addedcnt > 0 \/ liftedcnt > 0
\* make_report, line 479: the page is saved only after a real change.
Publishes(config, addedcnt, liftedcnt) ==
    config.simulate # TRUE /\ (addedcnt > 0 \/ liftedcnt > 0)

\* main, lines 544-594: the summary lines and make_report.
Report ==
    /\ phase = "Report"
    /\ printed' = Append(printed, "summary")
    /\ report' = [written |-> TRUE,
                  published |-> Publishes(cfg, added["successful"], removed["successful"])]
    /\ phase' = PhaseAfter(phase)
    /\ UNCHANGED <<cfg, earlier, dataVars, setVars, liftDone, addDone, added, removed, remote,
                   calls, handled>>

Next ==
    \/ Load
    \/ LoadErrorBody
    \/ LoadFails
    \/ ClassifySets
    \/ LiftSkip
    \/ LiftNone
    \/ LiftCase
    \/ AddSkip
    \/ AddNone
    \/ AddCase
    \/ Report

Spec == Init /\ [][Next]_vars

\* ------------------------------------------------------ the script run again
\* A run that has ended is followed by the next scheduled run of the script on
\* the same datasets and settings: the loaders and the classifier return the
\* tables of the run before, the counters start at zero in the new process,
\* and the catalog is as the run before left it.
MaxRuns == 2
Rerun ==
    /\ phase \in {"Done", "Crashed"}
    /\ Len(earlier) + 1 < MaxRuns
    /\ earlier' = Append(earlier, handled)
    /\ liftDone' = 0
    /\ addDone' = 0
    /\ added' = [k \in AddKeys |-> 0]
    /\ removed' = [k \in RemoveKeys |-> 0]
    /\ calls' = <<>>
    /\ handled' = <<>>
    /\ printed' = <<>>
    /\ report' = [written |-> FALSE, published |-> FALSE]
    /\ phase' = "LiftPass"
    /\ UNCHANGED <<cfg, dataVars, setVars, remote>>

NextTwice ==
    \/ Load
    \/ LoadErrorBody
    \/ LoadFails
    \/ ClassifySets
    \/ LiftSkip
    \/ LiftNone
    \/ LiftCase
    \/ AddSkip
    \/ AddNone
    \/ AddCase
    \/ Report
    \/ Rerun

\* The settings of the runs that are followed up: real changes, thresholds as
\* Config orders them.
InitTwice ==
    /\ Init
    /\ cfg.simulate # TRUE
    /\ cfg.usageLimit > cfg.cooldownLimit

SpecTwice == InitTwice /\ [][NextTwice]_vars

\* ------------------------------------------------- the handlers on their own
\* remove_protection and add_protection called by main's loops with any one
\* case and any legacy grant rows, not only those the classifier passes on.
LiftCases ==
    [qid : Qids, username : Usernames, entityUsageCount : {NaN} \cup {Some(u) : u \in UsageCounts}]
AddCases == [qid : Qids, entityUsageCount : UsageCounts]
GrantRows == [qid : GrantedQids, logId : 1..(MaxLogId + 1), admin : Admins]

InitHandlers ==
    /\ phase = "LiftPass"
    /\ cfg \in Configs
    /\ top = EmptyBag
    /\ wdcmStatus = "ok"
    /\ protected = {}
    /\ highlyUsed = {}
    /\ inCooldown = EmptyBag
    /\ alreadySet = {}
    /\ \/ /\ toLift \in {<<c>> : c \in LiftCases}
          /\ early \in SUBSET GrantRows
          /\ toAdd = <<>>
          /\ blacklist = {}
       \/ /\ toLift = <<>>
          /\ early = {}
          /\ toAdd \in {<<c>> : c \in AddCases}
          /\ blacklist \in SUBSET DeniedQids
    /\ earlier = <<>>
    /\ Fresh

NextHandlers ==
    \/ LiftNone
    \/ LiftCase
    \/ AddNone
    \/ AddCase
    \/ Report

SpecHandlers == InitHandlers /\ [][NextHandlers]_vars

\* ===================================================================== claims
RECURSIVE TotalOver(_, _)
TotalOver(counter, keys) ==
    IF keys = {} THEN 0
    ELSE LET k == CHOOSE x \in keys : TRUE IN counter[k] + TotalOver(counter, keys \ {k})
Total(counter) == TotalOver(counter, DOMAIN counter)
Indices(s) == 1..Len(s)
Classified == phase \notin {"Load", "ClassifySets", "Aborted"}

\* C1: no identifier is classified both toAdd and toLift, whatever the
\* tables and thresholds: the identifiers of the two lists are disjoint.
C1_AddLiftDisjoint == QidsOf(Range(toAdd)) \cap QidsOf(Range(toLift)) = {}
\* a run whose classification left cases in both lists
C1_Witness == Classified /\ Len(toAdd) > 0 /\ Len(toLift) > 0

\* C2: the phases follow one another in the order Load, ClassifySets,
\* LiftPass, AddPass, Report, Done: a step that changes the phase moves to the
\* next one of that order (or an exception ends the run), so none is entered
\* twice; lift cases are handled in LiftPass only and before any add case, and
\* when the first add case starts every lift case handled has its counter and
\* its printed line and the lift loop has ended.
PhaseOrder == <<"Load", "ClassifySets", "LiftPass", "AddPass", "Report", "Done">>
PhaseIndex(p) == CHOOSE i \in 1..6 : PhaseOrder[i] = p
LiftLoopEnded ==
    \/ ~WithinLimit(cfg.liftLimit, toLift)
    \/ liftDone = Len(toLift)
    \/ (cfg.hardLimit # None /\ liftDone > 0 /\ liftDone >= cfg.hardLimit[1])
C2_PhasesInOrder ==
    [][/\ phase' # phase =>
            \/ phase' \in {"Aborted", "Crashed"}
            \/ PhaseIndex(phase') = PhaseIndex(phase) + 1
       /\ liftDone' # liftDone => phase = "LiftPass" /\ addDone = 0 /\ addDone' = 0
       /\ addDone' # addDone =>
            /\ phase = "AddPass"
            /\ liftDone' = liftDone
            /\ LiftLoopEnded
            /\ Total(removed) = liftDone
            /\ Len(printed) = addDone + (IF WithinLimit(cfg.liftLimit, toLift) THEN liftDone ELSE 1)
      ]_vars
\* a finished run that handled lift cases and add cases
C2_Witness == phase = "Done" /\ liftDone > 0 /\ addDone > 0

\* C3: every case handed to a handler ends with exactly one outcome: the
\* counters of a pass add up to the number of cases the pass has handed over.
C3_OneOutcomePerCase == Total(added) = addDone /\ Total(removed) = liftDone

\* C4: a protect call is issued only when the item was read as exactly
\* unprotected and an unprotect call only when it was read as exactly
\* semi-protected; a case that read any other shape ended without a call.
C4_CallsOnlyFromExpectedState ==
    \A i \in Indices(calls) :
        /\ calls[i].op = "protect" => calls[i].before = UNPROTECTED
        /\ calls[i].op = "unprotect" => calls[i].before = SEMIPROTECTED
\* a call was issued, and a case that read a partial protection was aborted
C4_Witness ==
    /\ Len(calls) > 0
    /\ \E i \in Indices(handled) :
          /\ handled[i].outcome \in {"itemhassomeprotection", "itemisnotsemiprotected"}
          /\ remote[handled[i].case.qid] # Unread
          /\ remote[handled[i].case.qid][1].protection = MoveProtected

\* C5: an add case whose identifier is in the deny-list ends 'blacklisted'
\* (or 'belowlimit' when the usage guard aborted it first), never
\* 'successful', and no protect call is issued for a deny-listed identifier.
C5_DenyListedNeverProtected ==
    /\ \A i \in Indices(handled) :
          (handled[i].pass = "add" /\ handled[i].case.qid \in blacklist) =>
              handled[i].outcome =
                  (IF handled[i].case.entityUsageCount < cfg.usageLimit
                   THEN "belowlimit" ELSE "blacklisted")
    /\ \A i \in Indices(calls) :
          calls[i].op = "protect" => calls[i].case.qid \notin blacklist
\* a deny-listed identifier came up as an add case and ended 'blacklisted'
C5_Witness ==
    \E i \in Indices(handled) :
        /\ handled[i].pass = "add"
        /\ handled[i].case.qid \in blacklist
        /\ handled[i].outcome = "blacklisted"

\* C6: a lift case whose usage count is at or above usageLimit ends
\* 'overlimit' whatever its actor, grants or live state, and every unprotect
\* call belongs to a case whose usage is below usageLimit or absent.
AtOrAboveLimit(case) ==
    case.entityUsageCount # NaN /\ case.entityUsageCount[1] >= cfg.usageLimit
C6_NeverLiftAtOrAboveLimit ==
    /\ \A i \in Indices(handled) :
          (handled[i].pass = "lift" /\ AtOrAboveLimit(handled[i].case)) =>
              handled[i].outcome = "overlimit"
    /\ \A i \in Indices(calls) :
          calls[i].op = "unprotect" => ~AtOrAboveLimit(calls[i].case)
\* a lift case of a trusted actor with usage exactly at the limit ended 'overlimit'
C6_Witness ==
    \E i \in Indices(handled) :
        /\ handled[i].pass = "lift"
        /\ handled[i].case.username \in WHITELISTED_ADMINS
        /\ handled[i].case.entityUsageCount = Some(cfg.usageLimit)
        /\ handled[i].outcome = "overlimit"

\* C7 as stated: a lift case of an untrusted actor with zero or several
\* legacy grant rows ends 'notwhitelisted' and no unprotect call is issued.
GrantsOf(case) == {g \in early : g.qid = case.qid}
Ungranted(h) ==
    /\ h.pass = "lift"
    /\ h.case.username \notin WHITELISTED_ADMINS
    /\ Cardinality(GrantsOf(h.case)) # 1
C7_Original ==
    /\ \A i \in Indices(handled) : Ungranted(handled[i]) => handled[i].outcome = "notwhitelisted"
    /\ \A i \in Indices(calls) :
          calls[i].op = "unprotect" =>
              (calls[i].case.username \in WHITELISTED_ADMINS
               \/ Cardinality(GrantsOf(calls[i].case)) = 1)
\* C7 as amended: such a case ends 'notwhitelisted' when its usage is below
\* usageLimit or absent and 'overlimit' otherwise; in both cases the history
\* is not queried and no unprotect call is issued.
C7_NotAuthorizedWithoutSingleGrant ==
    /\ \A i \in Indices(handled) :
          Ungranted(handled[i]) =>
              /\ handled[i].outcome =
                    (IF AtOrAboveLimit(handled[i].case) THEN "overlimit" ELSE "notwhitelisted")
              /\ handled[i].query = None
    /\ \A i \in Indices(calls) :
          calls[i].op = "unprotect" =>
              (calls[i].case.username \in WHITELISTED_ADMINS
               \/ Cardinality(GrantsOf(calls[i].case)) = 1)
\* an untrusted case with two grant rows ended 'notwhitelisted'
C7_Witness ==
    \E i \in Indices(handled) :
        /\ Ungranted(handled[i])
        /\ Cardinality(GrantsOf(handled[i].case)) = 2
        /\ handled[i].outcome = "notwhitelisted"

\* C8: when the history was queried for a lift case, the case passes the
\* authorization only if the returned row equals the grant in identifier,
\* log id and actor; with any other result, an empty one included, it ends
\* 'notwhitelisted' without a call and the run goes on.
MatchesGrant(h) ==
    /\ h.query[1] # <<>>
    /\ \E g \in GrantsOf(h.case) :
          /\ h.query[1][1].log_qid = g.qid
          /\ h.query[1][1].log_id = g.logId
          /\ h.query[1][1].log_actorname = g.admin
C8_ReverificationDecides ==
    /\ phase # "Crashed"
    /\ \A i \in Indices(handled) :
          (handled[i].pass = "lift" /\ handled[i].query # None) =>
              IF MatchesGrant(handled[i])
              THEN handled[i].outcome \in RemoveKeys \ {"overlimit", "notwhitelisted"}
              ELSE handled[i].outcome = "notwhitelisted"

\* C9: a pass whose list is longer than its limit handles no case, counts
\* nothing, issues no call and prints one line; the other pass is not
\* affected; a list within its limit is handled to its end (no hard cap set).
Exceeds(limit, cases) == limit # None /\ Len(cases) > limit[1]
Occurrences(s, x) == Cardinality({i \in Indices(s) : s[i] = x})
PassOf(op) == IF op = "protect" THEN "add" ELSE "lift"
Untouched(pass, done, counter, line) ==
    /\ done = 0
    /\ Total(counter) = 0
    /\ \A i \in Indices(handled) : handled[i].pass # pass
    /\ \A i \in Indices(calls) : PassOf(calls[i].op) # pass
    /\ Occurrences(printed, line) = 1
C9_PassLimitAllOrNothing ==
    /\ (phase \in {"AddPass", "Report", "Done"} /\ Exceeds(cfg.liftLimit, toLift)) =>
          Untouched("lift", liftDone, removed, "donotlift")
    /\ (phase \in {"Report", "Done"} /\ Exceeds(cfg.addLimit, toAdd)) =>
          Untouched("add", addDone, added, "donotadd")
    /\ (phase \in {"AddPass", "Report", "Done"} /\ ~Exceeds(cfg.liftLimit, toLift)
        /\ cfg.hardLimit = None) =>
          (liftDone = Len(toLift) /\ Occurrences(printed, "donotlift") = 0)
    /\ (phase \in {"Report", "Done"} /\ ~Exceeds(cfg.addLimit, toAdd)
        /\ cfg.hardLimit = None) =>
          (addDone = Len(toAdd) /\ Occurrences(printed, "donotadd") = 0)
\* the add pass was skipped and the lift pass handled its cases
C9_Witness ==
    /\ phase = "Done"
    /\ Exceeds(cfg.addLimit, toAdd)
    /\ liftDone > 0
    /\ liftDone = Len(toLift)

\* C10: with a hard cap N no pass handles more than N cases, and the cases
\* handled are the first ones of the pass's list.
C10_HardCap ==
    /\ cfg.hardLimit # None => (liftDone <= cfg.hardLimit[1] /\ addDone <= cfg.hardLimit[1])
    /\ \A i \in Indices(handled) :
          handled[i].case = (IF handled[i].pass = "lift" THEN toLift[i] ELSE toAdd[i - liftDone])

\* C11: in a simulated run no protect call is issued, no catalog item the run
\* has read changes afterwards, and the report page is not saved, however
\* many cases are counted as successful.
C11_SimulateChangesNothing ==
    [][cfg.simulate = TRUE =>
          /\ calls' = <<>>
          /\ ~report'.published
          /\ \A q \in Qids : remote[q] # Unread => remote'[q] = remote[q]]_vars
C11_Witness ==
    /\ cfg.simulate = TRUE
    /\ phase = "Done"
    /\ added["successful"] > 0
    /\ removed["successful"] > 0

\* The same run with Config.SIMULATE = True: the same datasets and settings give
\* the same lists, and the log, the subscriber API and the catalog answer as
\* they answered the run, except that the simulated run, changing nothing,
\* finds every item as it was before the run (as the run first read it).
FirstRead(q, i) ==
    LET reads == {j \in 1..i : handled[j].case.qid = q /\ handled[j].item # None}
        first == CHOOSE j \in reads : \A k \in reads : j <= k
    IN handled[first].item[1]
SimulatedOutcome(i) ==
    LET h == handled[i]
        simulated == [cfg EXCEPT !.simulate = TRUE]
        item == IF h.item = None THEN CHOOSE x \in ItemStates : TRUE
                ELSE FirstRead(h.case.qid, i)
    IN IF h.pass = "lift"
       THEN remove_protection(h.case, {g \in early : g.qid = h.case.qid}, simulated,
                              IF h.query = None THEN <<>> ELSE h.query[1], item, "ok").outcome
       ELSE add_protection(h.case, blacklist, simulated,
                           IF h.subscribers = None THEN 0 ELSE h.subscribers[1],
                           item, "ok").outcome
SimulatedCount(pass, key) ==
    Cardinality({i \in Indices(handled) : handled[i].pass = pass /\ SimulatedOutcome(i) = key})
\* the run changed the item of case i before it came to the case
ChangedBefore(i) ==
    \E j \in 1..(i - 1) : /\ handled[j].case.qid = handled[i].case.qid
                          /\ handled[j].outcome = "successful"

\* C12 as stated: the run with simulate off ends with the counters of the
\* simulated run, outcome by outcome, in both taxonomies.
C12_Original ==
    cfg.simulate # TRUE =>
        /\ \A k \in AddKeys : added[k] = SimulatedCount("add", k)
        /\ \A k \in RemoveKeys : removed[k] = SimulatedCount("lift", k)
\* C12: case by case the run with simulate off ends as the simulated run,
\* except a case whose call failed ('savefailed' against 'successful') and a
\* case on an item the run itself changed earlier ('itemhassomeprotection' or
\* 'itemisnotsemiprotected' against 'successful'); so the counters are
\* identical when no call fails and no item is changed before a later case.
C12_SimulatedAgreesUpToCalls ==
    cfg.simulate # TRUE =>
        /\ \A i \in Indices(handled) :
              \/ SimulatedOutcome(i) = handled[i].outcome
              \/ /\ SimulatedOutcome(i) = "successful"
                 /\ \/ handled[i].outcome = "savefailed"
                    \/ /\ ChangedBefore(i)
                       /\ handled[i].outcome \in {"itemhassomeprotection",
                                                  "itemisnotsemiprotected"}
        /\ ((\A i \in Indices(handled) :
                 handled[i].outcome # "savefailed" /\ ~ChangedBefore(i))
             => C12_Original)
C12_Witness ==
    /\ cfg.simulate # TRUE
    /\ phase = "Done"
    /\ added["successful"] > 0
    /\ removed["successful"] > 0
    /\ \A i \in Indices(handled) : handled[i].outcome # "savefailed" /\ ~ChangedBefore(i)

\* The run is the second of two in a row, and the log and the subscriber API
\* answer it as they answered the first.
SecondRun == Len(earlier) = 1
SameAnswers ==
    \A i \in Indices(handled), j \in Indices(earlier[1]) :
        handled[i].case.qid = earlier[1][j].case.qid =>
            /\ (handled[i].query # None /\ earlier[1][j].query # None
                    => handled[i].query = earlier[1][j].query)
            /\ (handled[i].subscribers # None /\ earlier[1][j].subscribers # None
                    => handled[i].subscribers = earlier[1][j].subscribers)
NoCallFailedBefore == \A j \in Indices(earlier[1]) : earlier[1][j].outcome # "savefailed"
Converged ==
    /\ added["successful"] = 0
    /\ removed["successful"] = 0
    /\ \A i \in Indices(calls) : calls[i].result # "ok"

\* C13 as stated: the second of two runs on identical inputs records no
\* 'successful' outcome and changes no item.
C13_Original == (SecondRun /\ SameAnswers) => Converged
\* C13: the same, when no protect call of the first run failed (a case that
\* ended 'savefailed' is tried again by the second run and may succeed).
C13_SecondRunConverged == (SecondRun /\ SameAnswers /\ NoCallFailedBefore) => Converged
C13_Witness ==
    /\ SecondRun
    /\ SameAnswers
    /\ NoCallFailedBefore
    /\ phase = "Done"
    /\ \E j \in Indices(earlier[1]) :
          earlier[1][j].pass = "add" /\ earlier[1][j].outcome = "successful"
    /\ \E j \in Indices(earlier[1]) :
          earlier[1][j].pass = "lift" /\ earlier[1][j].outcome = "successful"
    /\ added["itemhassomeprotection"] > 0
    /\ removed["itemisnotsemiprotected"] > 0

\* The ranking lists item q with a usage count of the band
\* [cooldownLimit, usageLimit).
InBand(u) == cfg.cooldownLimit <= u /\ u < cfg.usageLimit
RankedInBand(q) == \E r \in DOMAIN top : r.qid = q /\ InBand(r.entityUsageCount)
\* the ranking does not list item q with two different counts
RankedOnce(q) == Cardinality({r \in DOMAIN top : r.qid = q}) <= 1
\* item q is in the cooldown set and in no other set, and no case is made of it
HeldInCooldown(q) ==
    /\ q \in QidsOf(DOMAIN inCooldown)
    /\ q \notin QidsOf(Range(toAdd))
    /\ q \notin QidsOf(Range(toLift))
    /\ q \notin QidsOf(alreadySet)
    /\ \A i \in Indices(handled) : handled[i].case.qid # q
    /\ \A i \in Indices(calls) : calls[i].case.qid # q
CooldownRowsInBand(rows) ==
    \A m \in rows : m.entityUsageCount # NaN /\ InBand(m.entityUsageCount[1])

C15_RefusesBadThresholds ==
    cfg.cooldownLimit >= cfg.usageLimit =>
        /\ liftDone = 0
        /\ addDone = 0
        /\ handled = <<>>
        /\ calls = <<>>

\* C16: a run in which the load of one of the datasets failed hands no case
\* to a handler and issues no protect call.
LoadFailed == phase = "Aborted" \/ wdcmStatus = "error"
C16_LoadFailureIsFatal == LoadFailed => (handled = <<>> /\ calls = <<>>)

\* protect calls of one kind that returned
Returned(op) == Cardinality({i \in Indices(calls) : calls[i].op = op /\ calls[i].result = "ok"})

\* C17: the report page is saved exactly when the report was made with
\* simulate off and a successful add or lift counted; with simulate off the
\* successes counted are the protect calls that returned, so a saved report
\* follows at least one change of an item.
C17_PublishedIffRealChange ==
    /\ report.published <=>
           (report.written /\ cfg.simulate # TRUE
               /\ (added["successful"] > 0 \/ removed["successful"] > 0))
    /\ cfg.simulate # TRUE =>
           /\ added["successful"] = Returned("protect")
           /\ removed["successful"] = Returned("unprotect")
    /\ report.published => Returned("protect") + Returned("unprotect") > 0
C17_Witness ==
    /\ report.published
    /\ added["savefailed"] > 0
    /\ removed["successful"] > 0

\* the calls issued by the case at place k of handled
CallsOf(k) == {i \in Indices(calls) : calls[i].at = k}
\* the case at place k is not the last one its pass has to handle
MoreToHandle(k) ==
    IF handled[k].pass = "lift"
    THEN k < Len(toLift) /\ ~HardLimitBreaks(cfg, k)
    ELSE k - liftDone < Len(toAdd) /\ ~HardLimitBreaks(cfg, k - liftDone)
PassGoesOn(k) ==
    \/ phase = (IF handled[k].pass = "lift" THEN "LiftPass" ELSE "AddPass")
    \/ Len(handled) > k /\ handled[k + 1].pass = handled[k].pass

\* C18: a case whose protect call failed is counted 'savefailed', issued that
\* one call only, and is followed by the next case of its pass; a case without
\* a failed call is not counted 'savefailed'.
C18_FailedCallIsCaseLocal ==
    /\ \A i \in Indices(calls) :
          calls[i].result = "RuntimeError" =>
              /\ handled[calls[i].at].outcome = "savefailed"
              /\ CallsOf(calls[i].at) = {i}
              /\ MoreToHandle(calls[i].at) => PassGoesOn(calls[i].at)
    /\ \A k \in Indices(handled) :
          handled[k].outcome = "savefailed" =>
              \E i \in CallsOf(k) : calls[i].result = "RuntimeError"
    /\ added["savefailed"] =
          Cardinality({i \in Indices(calls) : calls[i].op = "protect"
                                              /\ calls[i].result = "RuntimeError"})
    /\ removed["savefailed"] =
          Cardinality({i \in Indices(calls) : calls[i].op = "unprotect"
                                              /\ calls[i].result = "RuntimeError"})
C18_Witness ==
    \E k \in Indices(handled) :
        /\ handled[k].outcome = "savefailed"
        /\ Len(handled) > k
        /\ handled[k + 1].pass = handled[k].pass

\* C19: once the datasets are loaded the run does not stop before the report
\* is written: until then main always has a next step.
C19_RunGoesOnToReport ==
    (phase \notin {"Load", "Aborted"} /\ ~report.written) => ENABLED Next

\* The first guard of the add transition that fails for the handled case h, in
\* the order usage, deny-list, subscribers, existence, redirect, protection
\* ("unasked" / "unread": the case got past the guards before without asking
\* the subscriber API / reading the item; "none": every guard passed).
FirstFailingGuard(h) ==
    IF h.case.entityUsageCount < cfg.usageLimit THEN "belowlimit"
    ELSE IF h.case.qid \in blacklist THEN "blacklisted"
    ELSE IF cfg.minSub # None /\ h.subscribers = None THEN "unasked"
    ELSE IF cfg.minSub # None /\ h.subscribers[1] < cfg.minSub[1] THEN "belowsubscribedprojects"
    ELSE IF h.item = None THEN "unread"
    ELSE IF ~h.item[1].exists THEN "itemnotexists"
    ELSE IF h.item[1].redirect THEN "itemisredirect"
    ELSE IF h.item[1].protection # UNPROTECTED THEN "itemhassomeprotection"
    ELSE "none"
GuardsBeforeSubscribers == {"belowlimit", "blacklisted"}
GuardsBeforeItem == GuardsBeforeSubscribers \cup {"belowsubscribedprojects"}
GuardCodes == GuardsBeforeItem \cup {"itemnotexists", "itemisredirect", "itemhassomeprotection"}

\* C20: an add case ends with the code of the first guard that fails in the
\* fixed order; the guards after it are not evaluated (the subscriber API is
\* not asked, the item is not read) and no protect call is issued; a case that
\* passes every guard ends with none of the guard codes.
C20_AddGuardOrder ==
    \A k \in Indices(handled) :
        handled[k].pass = "add" =>
            LET h == handled[k]
                g == FirstFailingGuard(h)
            IN /\ g \notin {"unasked", "unread"}
               /\ g \in GuardCodes => (h.outcome = g /\ CallsOf(k) = {})
               /\ g \in GuardsBeforeSubscribers => h.subscribers = None
               /\ g \in GuardsBeforeItem => h.item = None
               /\ g = "none" => h.outcome \notin GuardCodes
C20_Witness ==
    \E k \in Indices(handled) :
        /\ handled[k].pass = "add"
        /\ handled[k].case.entityUsageCount < cfg.usageLimit
        /\ handled[k].case.qid \in blacklist
        /\ handled[k].outcome = "belowlimit"

\* The current protections the run regards as its own to lift: the item has a
\* legacy grant or the protecting account is whitelisted.
Trusted(p) == (\E g \in early : g.qid = p.qid) \/ p.username \in WHITELISTED_ADMINS
Ranked(q) == \E r \in DOMAIN top : r.qid = q
RankedAtOrAboveFloor(q) ==
    \E r \in DOMAIN top : r.qid = q /\ r.entityUsageCount >= cfg.cooldownLimit
LiftedProtections == {[qid |-> c.qid, username |-> c.username] : c \in Range(toLift)}

\* C21: the lift list holds exactly the trusted current protections whose item
\* has no ranking row at or above the cooldown limit; a protection whose item
\* the ranking does not list is among them, with no usage count, and its case
\* is not ended as over the limit by remove_protection.
C21_LiftListExact ==
    Classified =>
        /\ LiftedProtections
               = {p \in protected : Trusted(p) /\ ~RankedAtOrAboveFloor(p.qid)}
        /\ \A p \in protected :
               (Trusted(p) /\ ~Ranked(p.qid)) =>
                   \E i \in Indices(toLift) :
                       toLift[i].qid = p.qid /\ toLift[i].entityUsageCount = NaN
        /\ \A k \in Indices(handled) :
               (handled[k].pass = "lift" /\ handled[k].case.entityUsageCount = NaN)
                   => handled[k].outcome # "overlimit"
C21_Witness ==
    /\ Classified
    /\ \E i \in Indices(toLift) : toLift[i].entityUsageCount # NaN
    /\ \E k \in Indices(handled) :
           /\ handled[k].pass = "lift"
           /\ handled[k].case.entityUsageCount = NaN
           /\ handled[k].outcome = "successful"

\* C22: the add list holds no deny-listed item, and no deny-listed item is
\* handed to add_protection as a case.
C22_AddListWithoutDenied ==
    Classified =>
        /\ QidsOf(Range(toAdd)) \cap blacklist = {}
        /\ \A k \in Indices(handled) :
               handled[k].pass = "add" => handled[k].case.qid \notin blacklist

\* C23: a current protection of an account that is not whitelisted, on an item
\* without a legacy grant, is on neither list, is never a case, is never read
\* and gets no protect call, whatever its usage count; so for every member of
\* alreadySet.
C23_UntrustedUntouched ==
    Classified =>
        /\ \A p \in protected :
               ~Trusted(p) =>
                   /\ p.qid \notin QidsOf(Range(toLift)) \cup QidsOf(Range(toAdd))
                   /\ \A k \in Indices(handled) : handled[k].case.qid # p.qid
                   /\ \A i \in Indices(calls) : calls[i].case.qid # p.qid
                   /\ remote[p.qid] = Unread
        /\ \A p \in alreadySet : p \in protected /\ ~Trusted(p)
C23_Witness ==
    /\ phase = "Done"
    /\ calls # <<>>
    /\ alreadySet # {}
    /\ cfg.usageLimit > cfg.cooldownLimit

\* C24: no item is a case more than once in a run: every qid is at most once on
\* the add list and at most once on the lift list.
C24_OneCasePerItem ==
    Classified =>
        \A q \in Qids :
            /\ Cardinality({i \in Indices(toAdd) : toAdd[i].qid = q}) <= 1
            /\ Cardinality({i \in Indices(toLift) : toLift[i].qid = q}) <= 1

MismatchCodes == {"couldntchangetosemiprotection", "couldntremoveprotection"}
\* the shape a handler requires of the item before it issues its call
ShapeBefore(op) == IF op = "protect" THEN UNPROTECTED ELSE SEMIPROTECTED

\* C25: no case ends with 'couldntchangetosemiprotection' or
\* 'couldntremoveprotection' and both counters stay 0, whatever the catalog
\* reports of the items; the one reading of the item a case makes is the one
\* from before its call, of the exact shape the handler requires.
C25_MismatchUnreachable ==
    /\ added["couldntchangetosemiprotection"] = 0
    /\ removed["couldntremoveprotection"] = 0
    /\ \A k \in Indices(handled) : handled[k].outcome \notin MismatchCodes
    /\ \A i \in Indices(calls) :
           LET h == handled[calls[i].at]
           IN /\ h.item # None
              /\ h.item[1].protection = calls[i].before
              /\ calls[i].before = ShapeBefore(calls[i].op)
C25_Witness ==
    /\ phase = "Done"
    /\ \E i \in Indices(calls) : calls[i].result = "ok"
    /\ \E k \in Indices(handled) :
           handled[k].item # None /\ handled[k].item[1].protection = MoveProtected

====
